---- MODULE Spec2Model ----
(***************************************************************************)
(* TRACE dashboard: the streaming client (WebSocketService, services/      *)
(* websocket.js), the synthetic data generator (services/mockData.js), the *)
(* Dashboard state layer (components/Dashboard.jsx) and the issue panel    *)
(* (components/IssueCommandCenter.jsx), as one state machine.  One         *)
(* JavaScript task (a socket event, a timer tick, a settled network call,  *)
(* a React render, an effect flush, a click) is one action.                *)
(***************************************************************************)
EXTENDS Integers, Sequences, FiniteSets, TLC

(* ------------------------------ bounds -------------------------------- *)
MaxEffectRuns == 2      \* runs of the Dashboard WebSocket effect (mount, StrictMode re-mount, region change)
MaxIds == 1             \* distinct issue ids a live server sends
MaxPending == 2         \* handler calls whose state updates are queued between two renders
MaxTicks == 2           \* ticks of the synthetic generator's interval timer
MaxResolutions == 1     \* resolution events received
MaxConnects == 2         \* connect() calls made on the service by any caller
MaxRuns == 1            \* remediation runs not yet over (in flight, or their closing timer pending)
MaxCalls == 1           \* /agent calls (chat, analysis) in flight
MaxChat == 4            \* messages in the issue chat
MaxShown == 2           \* issues the panel shows, where a claim is about several issues
MaxPanelRuns == 2       \* remediation runs not yet over, there
MaxPanelCalls == 2      \* /agent calls in flight, there
MaxSends == 4           \* calls of ChatInterface's handleSendMessage
MaxMockConnects == 2    \* connect() calls of a MockWebSocketService between two disconnect()s
MaxMockListeners == 1   \* callbacks registered on one channel of a MockWebSocketService
MaxInput == 5           \* characters on cleanup.sh's standard input
MaxListed == 1          \* resources one list command of cleanup.sh returns

(* ------------------------- program constants -------------------------- *)
TelemetryKeep == 100    \* prev.slice(-100)
ActiveUsersKeep == 60   \* prev.slice(-60)
MAX_MOCK_ISSUES == 5

Channels == {"telemetry", "activeUsers", "issue", "resolution", "health"}
Ids == 1..MaxIds
\* An issue payload is its id and the rest of its fields; two values of the rest
\* tell an entry that was kept from one that was replaced.
Revs == {1, 2}

\* generateMockHealth(): a random score in [85, 100) and a random status; the
\* scores are in tenths, one representative of the range.
MockHealth == { [score |-> 850, status |-> "Degraded"] }

\* What fetchInitialData hands to the health listeners: the /health body's
\* health_score and overall_status, or 94.5 / 'Operational' where a field is missing.
ApiHealth == { [score |-> 945, status |-> "Operational"] }

\* The payloads of the server's 'health' events.
ServerHealth == { [score |-> 990, status |-> "Operational"], [score |-> 700, status |-> "Critical"] }

\* No health payload yet.
NoHealth == [score |-> 0, status |-> "none"]

VARIABLES
  ws,                   \* the WebSocketService singleton: socket, socks, mockInterval, timers, useMockData, listeners
  healthFetches,        \* fetchInitialData calls whose fetch has not settled
  issueCounter,         \* mockData.js: issues generateMockIssue has produced
  mounted,              \* Dashboard: the WebSocket effect is mounted (its cleanup is pending)
  telemetryData,        \* Dashboard state: each sample is labelled by the number of samples received after it
  activeUsers,          \* Dashboard state, labelled likewise
  issues,               \* Dashboard state: the active issues, newest first
  resolvedIssueIds,     \* Dashboard state
  resolvedIssueIdsRef,  \* Dashboard ref: .current
  resolutions,          \* Dashboard state
  lastRemediation,      \* Dashboard state
  globalHealth,         \* Dashboard state (tenths)
  systemStatus,         \* Dashboard state
  lastHealth,           \* history: the payload of the last emission that invoked a health callback
  isConnected,          \* Dashboard state
  pending,              \* React: the updates queued on issues / resolvedIssueIds, in dispatch order
  effectPending,        \* React: the ref-sync effect is scheduled and has not run
  runs,                 \* IssueCommandCenter: handleAIRemediation calls in flight, per issue id
  actionLoading,        \* IssueCommandCenter state (0 is null)
  resetTimers,          \* IssueCommandCenter: pending setTimeout(..., 1500) callbacks of finished runs
  icc,                  \* IssueCommandCenter state: selectedIssue, drawerOpen, currentStep, agentLogs,
                        \* chatMessages, chatLoading, analysisLoading, aiAnalysis
  calls,                \* IssueCommandCenter: its async handlers in flight, each at its await
  lastEvt,              \* history: the last socket lifecycle event a handler of connect() handled
  ticks,                \* history: ticks of the generator's interval
  tickDelivered,        \* history: the generator has ticked since the last disconnect / connect_error
  misfired,             \* history: the callbacks an emission did not invoke exactly once, at their rank, on their channel
  staleAtRead,          \* history: the ids onIssueResolved had been called with that the ref lacked,
                        \* at the issue updater's last read of resolvedIssueIdsRef.current
  chat,                 \* ChatInterface state: messages, inputValue, isLoading; calls is history
  chatCalls,            \* ChatInterface: its handleSendMessage calls in flight, each at its await
  mock,                 \* a MockWebSocketService: intervals, listeners; last is history
  sh                    \* a run of cleanup.sh: its position, standard input, $confirm; deletes is history

vars == << ws, healthFetches, issueCounter, mounted, telemetryData, activeUsers, issues,
           resolvedIssueIds, resolvedIssueIdsRef, resolutions, lastRemediation, globalHealth,
           systemStatus, lastHealth, isConnected, pending, effectPending, runs, actionLoading, resetTimers,
           icc, calls, lastEvt, ticks, tickDelivered, misfired, staleAtRead, chat, chatCalls,
           mock, sh >>

wsVars == << ws, healthFetches, issueCounter, mounted >>
bufVars == << telemetryData, activeUsers >>
issueVars == << issues, resolvedIssueIds, resolvedIssueIdsRef, pending, effectPending,
                staleAtRead >>
miscVars == << resolutions, lastRemediation >>
healthVars == << globalHealth, systemStatus, lastHealth >>
runVars == << runs, actionLoading, resetTimers, icc, calls >>
evtVars == << lastEvt, ticks, tickDelivered, misfired >>
\* The pages and programs beside the Dashboard.
restVars == << chat, chatCalls, mock, sh >>

(* ----------------------- WebSocketService ------------------------------ *)

\* A callback registered with on(): its channel and k, its rank among the
\* registrations on that channel.
Callback(c, k) == [ch |-> c, k |-> k]

\* new WebSocketService(): socket null (0), no listeners, no interval.
\* listeners maps a channel to the array of its callbacks.
\* socks is the status of every socket io() has created ("connecting": opening or
\* reconnecting; "connected"; "closed": disconnect()ed, its handlers never fire again);
\* timers counts the live setInterval timers, mockInterval tells whether the
\* field holds a timer id.
NewService ==
  [ socket |-> 0, socks |-> << >>, mockInterval |-> FALSE, timers |-> 0,
    useMockData |-> FALSE, listeners |-> [c \in Channels |-> << >>] ]

Connected(w) == w.socket # 0 /\ w.socks[w.socket] = "connected"

\* Faulty variant: startMockDataStream returns before setInterval.
startMockDataStreamNever(w) == w

\* Faulty variant: startMockDataStream without its check of this.mockInterval.
startMockDataStreamUnguarded(w) == [w EXCEPT !.mockInterval = TRUE, !.timers = @ + 1]

\* startMockDataStream, the service's side: a second call is a no-op.
startMockDataStream(w) ==
  IF w.mockInterval THEN w
  ELSE [w EXCEPT !.mockInterval = TRUE, !.timers = @ + 1]

\* startMockDataStream emits an initial health snapshot when it starts the interval.
EmitsInitialHealth(w) == ~w.mockInterval /\ w.listeners["health"] # << >>

\* Faulty variant: the 'connect' handler forgets the interval.
clearMockForgotten(w) == w

\* The 'connect' handler's clearInterval(this.mockInterval); this.mockInterval = null.
clearMock(w) ==
  IF w.mockInterval THEN [w EXCEPT !.mockInterval = FALSE, !.timers = @ - 1]
  ELSE w

\* connect(onConnect): returns early on a connected socket; else a new socket.
connect(w) ==
  IF Connected(w) THEN w
  ELSE [w EXCEPT !.socks = Append(@, "connecting"), !.socket = Len(w.socks) + 1]

\* disconnect(): socket.disconnect() closes the socket; socket.io fires 'disconnect'
\* synchronously when the socket was connected, and that handler starts the generator.
disconnect(w) ==
  IF w.socket = 0 THEN w
  ELSE LET closed == [w EXCEPT !.socks[w.socket] = "closed", !.socket = 0]
       IN  IF Connected(w) THEN startMockDataStream(closed) ELSE closed

FiresDisconnect(w) == Connected(w)

\* on(event, callback): this.listeners.get(event).push(callback)
on(w, c) == [w EXCEPT !.listeners[c] = Append(@, Callback(c, Len(@) + 1))]

\* The five ws.on calls of the Dashboard effect.
on5(w) == on(on(on(on(on(w, "telemetry"), "activeUsers"), "issue"), "resolution"), "health")

\* Faulty variant: forEach runs from the last callback to the first.
FanoutReversed(w, c) ==
  [i \in 1..Len(w.listeners[c]) |-> w.listeners[c][Len(w.listeners[c]) + 1 - i]]

\* (this.listeners.get(event) || []).forEach((callback) => callback(data)): the
\* callbacks invoked by one emission on channel c, in order of invocation.
Fanout(w, c) == w.listeners[c]


(* --------------------------- Dashboard --------------------------------- *)

\* Array.prototype.slice(-n) for n > 0: the last n elements.
SliceLast(s, n) == IF Len(s) <= n THEN s ELSE SubSeq(s, Len(s) - n + 1, Len(s))

\* prev => [...prev.slice(-keep), data]; the new sample has label 0 and every
\* sample already there has one more sample after it.
PushSample(prev, keep) ==
  Append(SliceLast([i \in 1..Len(prev) |-> prev[i] + 1], keep), 0)

\* One emission on a buffer channel: every registered callback runs the updater.
RECURSIVE PushN(_, _, _)
PushN(prev, keep, n) ==
  IF n = 0 THEN prev ELSE PushN(PushSample(prev, keep), keep, n - 1)

IdsOf(list) == { list[i].id : i \in 1..Len(list) }

\* Faulty variant: the updater without its already-present check.
IssueUpdaterNoDedup(prev, ref, data) ==
  IF data.id \in ref THEN prev ELSE << data >> \o prev

\* The updater of ws.on('issue'): skip a resolved id (read from the ref), skip an
\* id already in the list, else insert at the front.
IssueUpdater(prev, ref, data) ==
  IF data.id \in ref THEN prev
  ELSE IF \E i \in 1..Len(prev) : prev[i].id = data.id THEN prev
  ELSE << data >> \o prev

\* prev.filter(i => i.id !== issueId)
RECURSIVE FilterOut(_, _)
FilterOut(prev, issueId) ==
  IF prev = << >> THEN << >>
  ELSE IF Head(prev).id = issueId THEN FilterOut(Tail(prev), issueId)
  ELSE << Head(prev) >> \o FilterOut(Tail(prev), issueId)

\* Faulty variant: an id already in the set is taken out of it.
AddResolvedToggle(prev, issueId) ==
  IF issueId \in prev THEN prev \ {issueId} ELSE prev \cup {issueId}

\* new Set([...prev, issueId])
AddResolved(prev, issueId) == prev \cup {issueId}

(* React's update queue, one entry per handler call that queued updates.
   "insert": the n callbacks of one 'issue' emission each passed the updater to
   setIssues, and the next render runs them.  "eager": the component had no work
   scheduled, so React ran the first callback's updater at once ("eager state")
   and queued its result [data, ...issues], the issues being those of the last
   commit, which the render that takes it starts from; the other n callbacks'
   updaters are queued behind it.  "resolve": the two updaters of one
   onIssueResolved call. *)
InsertUpdate(data, n) == [op |-> "insert", id |-> data.id, rev |-> data.rev, n |-> n]
EagerUpdate(data, n) == [op |-> "eager", id |-> data.id, rev |-> data.rev, n |-> n]
ResolveUpdate(id) == [op |-> "resolve", id |-> id, rev |-> 0, n |-> 1]

\* ws.on('issue') callbacks, n of them, each calling setIssues(updater).  An
\* updater run eagerly that returns the list it was given queues nothing.
DispatchIssue(q, data, n, eager) ==
  IF n = 0 THEN q
  ELSE IF eager /\ q = << >>
       THEN IF IssueUpdater(issues, resolvedIssueIdsRef, data) = issues THEN q
            ELSE << EagerUpdate(data, n - 1) >>
       ELSE Append(q, InsertUpdate(data, n))

\* n queued issue updaters for the same payload, run one after the other.
RECURSIVE RunUpdaters(_, _, _, _)
RunUpdaters(prev, ref, data, n) ==
  IF n = 0 THEN prev ELSE RunUpdaters(IssueUpdater(prev, ref, data), ref, data, n - 1)

\* onIssueResolved(issueId): setResolvedIssueIds(updater); setIssues(updater), the
\* two queued by the one call ("resolve": the add on one hook, the filter on the other).
onIssueResolved(q, issueId) == Append(q, ResolveUpdate(issueId))

\* A render runs the queued updates of each hook in dispatch order.
RECURSIVE ReduceIssues(_, _, _)
ReduceIssues(q, prev, ref) ==
  IF q = << >> THEN prev
  ELSE LET u == Head(q)
           data == [id |-> u.id, rev |-> u.rev]
           next == CASE u.op = "insert"  -> RunUpdaters(prev, ref, data, u.n)
                     [] u.op = "eager"   -> RunUpdaters(<< data >> \o prev, ref, data, u.n)
                     [] u.op = "resolve" -> FilterOut(prev, u.id)
       IN  ReduceIssues(Tail(q), next, ref)

RECURSIVE ReduceResolved(_, _)
ReduceResolved(q, prev) ==
  IF q = << >> THEN prev
  ELSE ReduceResolved(Tail(q),
                      IF Head(q).op = "resolve" THEN AddResolved(prev, Head(q).id) ELSE prev)

HasOp(q, op) == \E i \in 1..Len(q) : q[i].op = op

\* The ids onIssueResolved has been called with: those committed and those queued.
Requested == resolvedIssueIds \cup { pending[i].id : i \in { j \in 1..Len(pending) : pending[j].op = "resolve" } }


(* ------------------------ IssueCommandCenter --------------------------- *)

AGENT_PIPELINE == << "Monitoring", "Prediction", "Decision xApp", "Action", "Learning" >>

\* What a settled fetch hands back: response.ok; not ok with status < 500; status >= 500.
Statuses == {"ok", "below500", "server"}

\* How the fetch of /remediate settles: with a response, or by throwing.
Outcomes == Statuses \cup {"throws"}

\* What response.json() finds: a JSON object, text that is not JSON, the JSON text null.
Bodies == {"object", "invalid", "null"}

\* useState(null) of aiAnalysis.
null == [id |-> 0, source |-> "none"]

\* The useState initial values (a null issue is 0).  A chat message is its kind.
IccFresh ==
  [ selectedIssue |-> 0, drawerOpen |-> FALSE, currentStep |-> -1, agentLogs |-> << >>,
    chatMessages |-> << >>, chatInput |-> "", chatLoading |-> FALSE,
    analysisLoading |-> FALSE, aiAnalysis |-> null ]

\* An async handler called with issue id, suspended at the await pc; logs is the
\* local array of simulateAgentPipeline, status and body what its fetch returned.
\* closed is history: handleCloseDrawer has run since the call was made; steps is
\* history: the values the call has passed to setCurrentStep, in order.  A
\* handleSendMessage waiting in setTimeout is a call at "timer": id, input and
\* loading are the selectedIssue, chatInput and chatLoading of its closure, chip is
\* the suggestion clicked; from its fetch on, input is the text the request carries.
Call(fn, id, pc) ==
  [ fn |-> fn, id |-> id, pc |-> pc, logs |-> << >>, status |-> "none", body |-> "none",
    closed |-> FALSE, steps |-> << >>, input |-> "", loading |-> FALSE, chip |-> "" ]

Remove(s, i) == SubSeq(s, 1, i - 1) \o SubSeq(s, i + 1, Len(s))

CallsOf(fns) == { i \in 1..Len(calls) : calls[i].fn \in fns }

\* useEffect(() => { if (selectedIssue) { ... } }, [selectedIssue]): runs in the
\* commit that follows a change of selectedIssue.
selectedIssueEffect(before, c) ==
  IF c.selectedIssue # before /\ c.selectedIssue # 0
  THEN [c EXCEPT !.chatMessages = << "greeting" >>, !.aiAnalysis = null,
                 !.agentLogs = << >>, !.currentStep = -1]
  ELSE c

(* --------------------------- ChatInterface ----------------------------- *)

\* What the input field holds: nothing, white space only, a text.
Inputs == {"", " ", "text"}

\* String.prototype.trim() on the three.
trim(v) == IF v = " " THEN "" ELSE v

\* The useState initial values: the welcome message, an empty input.  A message is
\* its kind: "welcome", "user", "api" (the content of the response) or "fallback"
\* (generateFallbackResponse).  calls is history: the calls made of handleSendMessage.
ChatFresh ==
  [ messages |-> << "welcome" >>, inputValue |-> "", isLoading |-> FALSE, calls |-> 0 ]

(* ---------------------------- initial states --------------------------- *)

\* new MockWebSocketService(): no interval, no listener. intervals holds, for each
\* interval, the channel it emits on; listeners the number of callbacks per channel.
\* last is history: the last emission that invoked a callback, id 0 for a null
\* payload.
MockFresh ==
  [ intervals |-> << >>, listeners |-> [c \in Channels |-> 0],
    last |-> [ch |-> "none", id |-> 0] ]

\* cleanup.sh at its read, nothing on standard input yet.  phase and left are the
\* position in the delete commands; deletes is history: the delete commands executed.
ShFresh ==
  [ pc |-> "read", stdin |-> << >>, confirm |-> "", phase |-> 0, left |-> 0, deletes |-> 0 ]

RestFresh ==
  /\ chat = ChatFresh
  /\ chatCalls = << >>
  /\ mock = MockFresh
  /\ sh = ShFresh

DashboardFresh ==
  /\ telemetryData = << >>
  /\ activeUsers = << >>
  /\ issues = << >>
  /\ resolvedIssueIds = {}
  /\ resolvedIssueIdsRef = {}
  /\ resolutions = << >>
  /\ lastRemediation = "No recent actions"
  /\ globalHealth = 950
  /\ systemStatus = "Operational"
  /\ lastHealth = NoHealth
  /\ pending = << >>
  /\ effectPending = FALSE
  /\ runs = [i \in Ids |-> 0]
  /\ actionLoading = 0
  /\ resetTimers = 0
  /\ icc = IccFresh
  /\ calls = << >>
  /\ issueCounter = 0
  /\ ticks = 0
  /\ tickDelivered = FALSE
  /\ misfired = {}
  /\ staleAtRead = {}
  /\ RestFresh

\* The page has loaded: the singleton is not yet constructed, nothing is mounted.
Init ==
  /\ ws = NewService
  /\ healthFetches = 0
  /\ mounted = FALSE
  /\ isConnected = FALSE
  /\ lastEvt = "none"
  /\ DashboardFresh

\* The service after n runs of the Dashboard effect (n = 1: a production build;
\* n = 2: StrictMode's mount, cleanup, mount) once the last socket has connected
\* and the /health fetches have failed.
LiveService(n) ==
  [ socket |-> n,
    socks |-> [i \in 1..n |-> IF i = n THEN "connected" ELSE "closed"],
    mockInterval |-> FALSE, timers |-> 0, useMockData |-> FALSE,
    listeners |-> [c \in Channels |-> [k \in 1..n |-> Callback(c, k)]] ]

InitLive ==
  /\ \E n \in 1..MaxEffectRuns : ws = LiveService(n)
  /\ healthFetches = 0
  /\ mounted = TRUE
  /\ isConnected = TRUE
  /\ lastEvt = "connect"
  /\ DashboardFresh

(* --------------------- the Dashboard WebSocket effect ------------------ *)

\* The callbacks of channel c in registration order, n of them registered.
InOrder(c, n) == [k \in 1..n |-> Callback(c, k)]

PositionsIn(f, cb) == { i \in 1..Len(f) : f[i] = cb }

\* The callbacks that the invocations f of one emission on channel c treat otherwise
\* than the n registrations on c ask for: invoked twice, not at all, out of
\* turn, or registered on another channel.
Misfires(f, c, n) ==
  { cb \in { f[i] : i \in 1..Len(f) } \cup { Callback(c, k) : k \in 1..n } :
      PositionsIn(f, cb) # PositionsIn(InOrder(c, n), cb) }

\* The history after a handler has emitted on the channels cs, one after the other.
Emitted(cs) ==
  misfired \cup UNION { Misfires(Fanout(ws, cs[i]), cs[i], Len(ws.listeners[cs[i]])) : i \in 1..Len(cs) }

\* The callbacks of channel c whose set-state calls take effect: the service keeps
\* and calls every callback ever registered, and React drops the updates of a
\* Dashboard that has unmounted.
Updaters(c) == IF mounted THEN Len(Fanout(ws, c)) ELSE 0

\* Faulty variant: the callback keeps the lower of the two scores.
SetHealthWorst(emitted, h) ==
  /\ globalHealth' = IF emitted /\ mounted /\ h.score < globalHealth THEN h.score ELSE globalHealth
  /\ systemStatus' = IF emitted /\ mounted /\ h.score < globalHealth THEN h.status ELSE systemStatus
  /\ lastHealth' = IF emitted THEN h ELSE lastHealth

\* setGlobalHealth(data.score); setSystemStatus(data.status), when emitted.
SetHealth(emitted, h) ==
  /\ globalHealth' = IF emitted /\ mounted THEN h.score ELSE globalHealth
  /\ systemStatus' = IF emitted /\ mounted THEN h.status ELSE systemStatus
  /\ lastHealth' = IF emitted THEN h ELSE lastHealth

\* The effect body: ws.connect(callback), then ws.on for the five channels.
\* connect() also starts fetchInitialData().
EffectMount ==
  /\ ~mounted
  /\ Len(ws.socks) = 0
  /\ ws' = on5(connect(ws))
  /\ healthFetches' = IF Connected(ws) THEN healthFetches ELSE healthFetches + 1
  /\ mounted' = TRUE
  /\ UNCHANGED << issueCounter, isConnected, bufVars, issueVars, miscVars, restVars, healthVars,
                  runVars, evtVars >>

\* The effect's cleanup, ws.disconnect(), with the 'disconnect' handler it may fire.
Cleanup(after, stays) ==
  /\ \E h \in MockHealth : SetHealth(stays /\ FiresDisconnect(ws) /\ EmitsInitialHealth(ws), h)
  /\ lastEvt' = IF FiresDisconnect(ws) THEN "disconnect" ELSE lastEvt
  /\ tickDelivered' = IF FiresDisconnect(ws) THEN FALSE ELSE tickDelivered
  /\ misfired' = IF FiresDisconnect(ws) /\ ~ws.mockInterval THEN Emitted(<< "health" >>) ELSE misfired
  /\ ws' = after

\* selectedRegion changes (or StrictMode re-mounts): cleanup and effect body run
\* in the same commit.
EffectRerun ==
  /\ mounted
  /\ Len(ws.socks) < MaxEffectRuns
  /\ Cleanup(on5(connect(disconnect(ws))), TRUE)
  /\ healthFetches' = healthFetches + 1
  /\ UNCHANGED << issueCounter, mounted, isConnected, bufVars, issueVars, miscVars, restVars,
                  runVars, ticks >>

\* The Dashboard unmounts: the cleanup alone.
EffectUnmount ==
  /\ mounted
  /\ Cleanup(disconnect(ws), FALSE)
  /\ mounted' = FALSE
  /\ UNCHANGED << healthFetches, issueCounter, isConnected, bufVars, issueVars, miscVars, restVars,
                  runVars, ticks >>

\* The sockets io() has created that are not closed: connecting, reconnecting or
\* connected, with the handlers of connect() and setupListeners() attached.
Alive(w) == { s \in 1..Len(w.socks) : w.socks[s] # "closed" }

\* WebSocketService.getInstance().connect(onConnect) called by itself, without
\* the disconnect() of the effect's cleanup before it.
ServiceConnect ==
  /\ mounted
  /\ Len(ws.socks) < MaxConnects
  /\ ws' = connect(ws)
  /\ healthFetches' = IF Connected(ws) THEN healthFetches ELSE healthFetches + 1
  /\ UNCHANGED << issueCounter, mounted, isConnected, bufVars, issueVars, miscVars, restVars,
                  healthVars, runVars, evtVars >>

\* WebSocketService.getInstance().disconnect() called by itself, with the
\* 'disconnect' handler it may fire.
ServiceDisconnect ==
  /\ mounted
  /\ ws.socket # 0
  /\ Cleanup(disconnect(ws), TRUE)
  /\ UNCHANGED << healthFetches, issueCounter, mounted, isConnected, bufVars, issueVars,
                  miscVars, restVars, runVars, ticks >>

(* ----------------------- socket lifecycle events ----------------------- *)

\* Faulty variant: the 'connect' handler without its onConnect() call.
ConnectEvtNoCallback(s) ==
  /\ ws.socks[s] = "connecting"
  /\ ws' = clearMock([ws EXCEPT !.socks[s] = "connected", !.useMockData = FALSE])
  /\ lastEvt' = "connect"
  /\ UNCHANGED << healthFetches, issueCounter, mounted, isConnected, bufVars, issueVars,
                  miscVars, restVars, healthVars, runVars, ticks, tickDelivered, misfired >>

\* socket.on("connect"): stop the generator, then onConnect() (setIsConnected(true)).
ConnectEvt(s) ==
  /\ ws.socks[s] = "connecting"
  /\ ws' = clearMock([ws EXCEPT !.socks[s] = "connected", !.useMockData = FALSE])
  /\ isConnected' = TRUE
  /\ lastEvt' = "connect"
  /\ UNCHANGED << healthFetches, issueCounter, mounted, bufVars, issueVars, miscVars, restVars,
                  healthVars, runVars, ticks, tickDelivered, misfired >>

\* socket.on("disconnect"): the connection is lost (socket.io will try to
\* reconnect); start the generator.
DisconnectEvt(s) ==
  /\ ws.socks[s] = "connected"
  /\ ws' = startMockDataStream([ws EXCEPT !.socks[s] = "connecting"])
  /\ \E h \in MockHealth : SetHealth(EmitsInitialHealth(ws), h)
  /\ lastEvt' = "disconnect"
  /\ tickDelivered' = FALSE
  /\ misfired' = IF ws.mockInterval THEN misfired ELSE Emitted(<< "health" >>)
  /\ UNCHANGED << healthFetches, issueCounter, mounted, isConnected, bufVars, issueVars,
                  miscVars, restVars, runVars, ticks >>

\* Faulty variant: the 'connect_error' handler without its onConnect() call.
ConnectErrorEvtNoCallback(s) ==
  /\ ws.socks[s] = "connecting"
  /\ ws' = startMockDataStream([ws EXCEPT !.useMockData = TRUE])
  /\ \E h \in MockHealth : SetHealth(EmitsInitialHealth(ws), h)
  /\ lastEvt' = "connect_error"
  /\ tickDelivered' = FALSE
  /\ misfired' = IF ws.mockInterval THEN misfired ELSE Emitted(<< "health" >>)
  /\ UNCHANGED << healthFetches, issueCounter, mounted, isConnected, bufVars, issueVars,
                  miscVars, restVars, runVars, ticks >>

\* socket.on("connect_error"): one per failed attempt; start the generator and
\* still call onConnect().
ConnectErrorEvt(s) ==
  /\ ws.socks[s] = "connecting"
  /\ ws' = startMockDataStream([ws EXCEPT !.useMockData = TRUE])
  /\ \E h \in MockHealth : SetHealth(EmitsInitialHealth(ws), h)
  /\ isConnected' = TRUE
  /\ lastEvt' = "connect_error"
  /\ tickDelivered' = FALSE
  /\ misfired' = IF ws.mockInterval THEN misfired ELSE Emitted(<< "health" >>)
  /\ UNCHANGED << healthFetches, issueCounter, mounted, bufVars, issueVars, miscVars, restVars,
                  runVars, ticks >>

\* fetchInitialData settles: an ok response is emitted to the health listeners,
\* anything else is swallowed.
FetchInitialDataDone ==
  /\ healthFetches > 0
  /\ healthFetches' = healthFetches - 1
  /\ \E ok \in BOOLEAN, h \in ApiHealth :
       /\ SetHealth(ok /\ Fanout(ws, "health") # << >>, h)
       /\ misfired' = IF ok THEN Emitted(<< "health" >>) ELSE misfired
  /\ UNCHANGED << ws, issueCounter, mounted, isConnected, bufVars, issueVars, miscVars, restVars,
                  runVars, lastEvt, ticks, tickDelivered >>


(* ------------------------------ data events ---------------------------- *)

\* The issue handler's callbacks ran for one emission of data; when React ran the
\* first updater eagerly, it read the ref at dispatch.
EmitIssue(data, eager) ==
  /\ pending' = DispatchIssue(pending, data, Updaters("issue"), eager)
  /\ Len(pending') <= MaxPending
  /\ staleAtRead' = IF eager /\ pending = << >> /\ Updaters("issue") > 0
                    THEN Requested \ resolvedIssueIdsRef
                    ELSE staleAtRead
  /\ UNCHANGED << issues, resolvedIssueIds, resolvedIssueIdsRef, effectPending >>

\* setupListeners: a connected socket forwards a server 'issue' event.
LiveIssue(s, data) ==
  /\ ws.socks[s] = "connected"
  /\ \E eager \in BOOLEAN : EmitIssue(data, eager)
  /\ misfired' = Emitted(<< "issue" >>)
  /\ UNCHANGED << wsVars, isConnected, bufVars, miscVars, restVars, healthVars, runVars, lastEvt,
                  ticks, tickDelivered >>

\* setupListeners: a connected socket forwards a server 'health' event.
LiveHealth(s) ==
  /\ ws.socks[s] = "connected"
  /\ \E h \in ServerHealth : SetHealth(Fanout(ws, "health") # << >>, h)
  /\ misfired' = Emitted(<< "health" >>)
  /\ UNCHANGED << wsVars, isConnected, bufVars, issueVars, miscVars, restVars, runVars, lastEvt,
                  ticks, tickDelivered >>

LiveTelemetry(s) ==
  /\ ws.socks[s] = "connected"
  /\ telemetryData' = PushN(telemetryData, TelemetryKeep, Updaters("telemetry"))
  /\ misfired' = Emitted(<< "telemetry" >>)
  /\ UNCHANGED << wsVars, isConnected, activeUsers, issueVars, miscVars, restVars, healthVars,
                  runVars, lastEvt, ticks, tickDelivered >>

LiveActiveUsers(s) ==
  /\ ws.socks[s] = "connected"
  /\ activeUsers' = PushN(activeUsers, ActiveUsersKeep, Updaters("activeUsers"))
  /\ misfired' = Emitted(<< "activeUsers" >>)
  /\ UNCHANGED << wsVars, isConnected, telemetryData, issueVars, miscVars, restVars, healthVars,
                  runVars, lastEvt, ticks, tickDelivered >>

\* setResolutions(prev => [data, ...prev]); setLastRemediation(data.summary),
\* once per registered callback.
RECURSIVE Prepend(_, _, _)
Prepend(prev, data, n) == IF n = 0 THEN prev ELSE Prepend(<< data >> \o prev, data, n - 1)

EmitResolution(src) ==
  /\ resolutions' = Prepend(resolutions, src, Updaters("resolution"))
  /\ lastRemediation' = IF Updaters("resolution") > 0 THEN src ELSE lastRemediation

LiveResolution(s) ==
  /\ ws.socks[s] = "connected"
  /\ Len(resolutions) < MaxResolutions
  /\ EmitResolution("live")
  /\ misfired' = Emitted(<< "resolution" >>)
  /\ UNCHANGED << wsVars, isConnected, bufVars, issueVars, healthVars, runVars, lastEvt,
                  ticks, tickDelivered, restVars >>

\* The interval callback of startMockDataStream: telemetry and activeUsers every
\* tick, an issue with probability 0.1 while generateMockIssue returns one, a
\* resolution with probability 0.05.
MockTick ==
  /\ ws.timers > 0
  /\ ticks < MaxTicks
  /\ ticks' = ticks + 1
  /\ tickDelivered' = (Fanout(ws, "telemetry") # << >> /\ Fanout(ws, "activeUsers") # << >>)
  /\ telemetryData' = PushN(telemetryData, TelemetryKeep, Updaters("telemetry"))
  /\ activeUsers' = PushN(activeUsers, ActiveUsersKeep, Updaters("activeUsers"))
  /\ \E issue, resolution \in BOOLEAN :
       /\ IF issue
          THEN /\ issueCounter < MAX_MOCK_ISSUES
               /\ issueCounter' = issueCounter + 1
               /\ \E eager \in BOOLEAN : EmitIssue([id |-> issueCounter + 1, rev |-> 1], eager)
          ELSE UNCHANGED << issueCounter, issueVars >>
       /\ IF resolution
          THEN Len(resolutions) < MaxResolutions /\ EmitResolution("mock")
          ELSE UNCHANGED miscVars
       /\ misfired' = Emitted(<< "telemetry", "activeUsers" >>
                               \o (IF issue THEN << "issue" >> ELSE << >>)
                               \o (IF resolution THEN << "resolution" >> ELSE << >>))
  /\ UNCHANGED << ws, healthFetches, mounted, isConnected, healthVars, runVars, lastEvt,
                  restVars >>

(* ------------------------------- React --------------------------------- *)

\* A render of the Dashboard: pending passive effects are flushed first, then
\* every hook runs its queued updates, then the commit schedules the ref-sync
\* effect when resolvedIssueIds is a new Set.
Render ==
  /\ pending # << >>
  /\ LET ref == IF effectPending THEN resolvedIssueIds ELSE resolvedIssueIdsRef
     IN  /\ resolvedIssueIdsRef' = ref
         /\ issues' = ReduceIssues(pending, issues, ref)
         /\ staleAtRead' = IF \E i \in 1..Len(pending) : pending[i].op # "resolve" /\ pending[i].n > 0
                           THEN Requested \ ref ELSE staleAtRead
  /\ resolvedIssueIds' = ReduceResolved(pending, resolvedIssueIds)
  /\ effectPending' = HasOp(pending, "resolve")
  /\ pending' = << >>
  /\ UNCHANGED << wsVars, isConnected, bufVars, miscVars, restVars, healthVars, runVars, evtVars >>

\* useEffect(() => { resolvedIssueIdsRef.current = resolvedIssueIds }, [resolvedIssueIds])
RefSync ==
  /\ effectPending
  /\ resolvedIssueIdsRef' = resolvedIssueIds
  /\ effectPending' = FALSE
  /\ UNCHANGED << wsVars, isConnected, bufVars, miscVars, restVars, healthVars, runVars, evtVars,
                  issues, resolvedIssueIds, pending, staleAtRead >>

(* ---------------------------- remediation ------------------------------ *)

RECURSIVE RunsInFlight(_)
RunsInFlight(S) ==
  IF S = {} THEN 0
  ELSE LET i == CHOOSE x \in S : TRUE IN runs[i] + RunsInFlight(S \ {i})

\* The Auto Remediate button of a rendered issue card: handleAIRemediation(issue)
\* starts with setActionLoading(issue.id).
StartRemediation(id) ==
  /\ mounted
  /\ id \in IdsOf(issues)
  /\ actionLoading # id
  /\ RunsInFlight(Ids) + resetTimers < MaxRuns
  /\ runs' = [runs EXCEPT ![id] = @ + 1]
  /\ actionLoading' = id
  /\ UNCHANGED << wsVars, isConnected, bufVars, issueVars, miscVars, restVars, healthVars,
                  resetTimers, icc, calls, evtVars >>

\* handleAIRemediation reaches onIssueResolved(issue.id) and arms the 1500 ms timer.
RemediationResolved(id) ==
  /\ runs[id] > 0
  /\ Len(pending) < MaxPending
  /\ runs' = [runs EXCEPT ![id] = @ - 1]
  /\ pending' = onIssueResolved(pending, id)
  /\ resetTimers' = resetTimers + 1
  /\ UNCHANGED << wsVars, isConnected, bufVars, miscVars, restVars, healthVars, evtVars, issues,
                  resolvedIssueIds, resolvedIssueIdsRef, effectPending, staleAtRead,
                  actionLoading, icc, calls >>

\* handleAIRemediation's catch: the fetch threw.
RemediationFailed(id) ==
  /\ runs[id] > 0
  /\ runs' = [runs EXCEPT ![id] = @ - 1]
  /\ actionLoading' = 0
  /\ UNCHANGED << wsVars, isConnected, bufVars, issueVars, miscVars, restVars, healthVars,
                  resetTimers, icc, calls, evtVars >>

\* The 1500 ms timer of a finished run: setActionLoading(null).
ResetTimer ==
  /\ resetTimers > 0
  /\ resetTimers' = resetTimers - 1
  /\ actionLoading' = 0
  /\ UNCHANGED << wsVars, isConnected, bufVars, issueVars, miscVars, restVars, healthVars,
                  runs, icc, calls, evtVars >>

(* ------------- IssueCommandCenter: the handlers, await by await -------- *)
(* StartRemediation, RemediationResolved, RemediationFailed and ResetTimer above
   are a run as the Dashboard sees it, its first task and its last.  Below, every
   task of a run and of the /agent calls, with the component's own state. *)

dashVars == << wsVars, isConnected, bufVars, miscVars, restVars, healthVars, evtVars >>

AgentFns == {"handleSendMessage", "handleAnalyzeIssue"}

\* The messages the handlers in flight will still append to the chat.
Replies == Cardinality(CallsOf({"handleAIRemediation", "handleSendMessage"}))

\* The bound leaves room for one more /agent call.
AgentRoom(maxCalls) == Cardinality(CallsOf(AgentFns)) < maxCalls

\* The list and the drawer are rendered (not the empty state of issues.length === 0).
ListShown == mounted /\ issues # << >>

\* handleViewDetails(issue), a click on a card (the open drawer is modal and covers
\* the cards): the three setters, handleAnalyzeIssue up to its fetch, then the
\* commit with the effect on [selectedIssue].
handleViewDetails(id) ==
  /\ ListShown
  /\ id \in IdsOf(issues)
  /\ ~icc.drawerOpen
  /\ 1 + Replies <= MaxChat
  /\ icc' = selectedIssueEffect(icc.selectedIssue,
              [icc EXCEPT !.selectedIssue = id, !.drawerOpen = TRUE,
                          !.analysisLoading = TRUE, !.aiAnalysis = null])
  /\ calls' = Append(calls, Call("handleAnalyzeIssue", id, "fetch"))
  /\ UNCHANGED << dashVars, issueVars, runs, actionLoading, resetTimers >>

\* handleCloseDrawer: the close button, the backdrop, Escape.
handleCloseDrawer ==
  /\ ListShown
  /\ icc.drawerOpen
  /\ icc' = selectedIssueEffect(icc.selectedIssue,
              [icc EXCEPT !.drawerOpen = FALSE, !.selectedIssue = 0, !.chatMessages = << >>,
                          !.aiAnalysis = null, !.agentLogs = << >>])
  /\ calls' = [i \in 1..Len(calls) |-> [calls[i] EXCEPT !.closed = TRUE]]
  /\ UNCHANGED << dashVars, issueVars, runs, actionLoading, resetTimers >>

\* The Re-analyze button of the drawer: handleAnalyzeIssue(selectedIssue) up to its fetch.
handleAnalyzeIssue ==
  /\ ListShown
  /\ icc.drawerOpen
  /\ icc.selectedIssue # 0
  /\ ~icc.analysisLoading
  /\ icc' = [icc EXCEPT !.analysisLoading = TRUE, !.aiAnalysis = null]
  /\ calls' = Append(calls, Call("handleAnalyzeIssue", icc.selectedIssue, "fetch"))
  /\ UNCHANGED << dashVars, issueVars, runs, actionLoading, resetTimers >>

\* generateFallbackAnalysis(issue) or the agent's text, for the issue of the call.
Analysis(id, source) == [id |-> id, source |-> source]

\* Faulty variant: the catch block sets no fallback analysis.
AnalysisSettledNoFallback(i, rejected) ==
  /\ calls[i].fn = "handleAnalyzeIssue"
  /\ calls[i].pc = "fetch"
  /\ IF rejected
     THEN /\ icc' = [icc EXCEPT !.analysisLoading = FALSE]
          /\ calls' = Remove(calls, i)
     ELSE /\ calls' = [calls EXCEPT ![i].pc = "json"]
          /\ UNCHANGED icc
  /\ UNCHANGED << dashVars, issueVars, runs, actionLoading, resetTimers >>

\* handleAnalyzeIssue, its fetch settled: a rejection goes to catch and finally,
\* a response (of any status) to response.json().
AnalysisSettled(i, rejected) ==
  /\ calls[i].fn = "handleAnalyzeIssue"
  /\ calls[i].pc = "fetch"
  /\ IF rejected
     THEN /\ icc' = [icc EXCEPT !.aiAnalysis = Analysis(calls[i].id, "fallback"),
                                !.analysisLoading = FALSE]
          /\ calls' = Remove(calls, i)
     ELSE /\ calls' = [calls EXCEPT ![i].pc = "json"]
          /\ UNCHANGED icc
  /\ UNCHANGED << dashVars, issueVars, runs, actionLoading, resetTimers >>

\* handleAnalyzeIssue, response.json() settled: a body that is not JSON or is null
\* throws (data.response of null); a valid data.response is shown, any other is
\* replaced by the fallback; finally setAnalysisLoading(false).
AnalysisJson(i, body, valid) ==
  /\ calls[i].fn = "handleAnalyzeIssue"
  /\ calls[i].pc = "json"
  /\ icc' = [icc EXCEPT !.aiAnalysis = Analysis(calls[i].id,
                                         IF body = "object" /\ valid THEN "agent" ELSE "fallback"),
                        !.analysisLoading = FALSE]
  /\ calls' = Remove(calls, i)
  /\ UNCHANGED << dashVars, issueVars, runs, actionLoading, resetTimers >>

\* The chips of the chat tab.
Suggestions == {"Recommend fix"}

\* The user's message: its content is chatInput as it was.
UserMessage(content) == "user: " \o content

\* onChange of the chat's input field (disabled while chatLoading).
setChatInput(v) ==
  /\ ListShown
  /\ icc.drawerOpen
  /\ ~icc.chatLoading
  /\ icc.chatInput # v
  /\ icc' = [icc EXCEPT !.chatInput = v]
  /\ UNCHANGED << dashVars, issueVars, runs, actionLoading, resetTimers, calls >>

\* handleSendMessage called from the render it was created in (the send button,
\* Enter): returns early on a blank input, while chatLoading or without a selected
\* issue; else the user's message, setChatInput(''), setChatLoading(true), the fetch.
handleSendMessage ==
  /\ ListShown
  /\ icc.drawerOpen
  /\ trim(icc.chatInput) # ""
  /\ ~icc.chatLoading
  /\ icc.selectedIssue # 0
  /\ Len(icc.chatMessages) + Replies + 2 <= MaxChat
  /\ icc' = [icc EXCEPT !.chatMessages = Append(@, UserMessage(icc.chatInput)),
                        !.chatInput = "", !.chatLoading = TRUE]
  /\ calls' = Append(calls, [Call("handleSendMessage", icc.selectedIssue, "fetch")
                               EXCEPT !.input = icc.chatInput])
  /\ UNCHANGED << dashVars, issueVars, runs, actionLoading, resetTimers >>

\* A click on a chip of the chat: setChatInput(suggestion);
\* setTimeout(handleSendMessage, 100), the handleSendMessage of this render.
ChipClick(suggestion) ==
  /\ ListShown
  /\ icc.drawerOpen
  /\ icc.selectedIssue # 0
  /\ Len(icc.chatMessages) + Replies + 2 <= MaxChat
  /\ icc' = [icc EXCEPT !.chatInput = suggestion]
  /\ calls' = Append(calls, [Call("handleSendMessage", icc.selectedIssue, "timer")
                               EXCEPT !.input = icc.chatInput, !.loading = icc.chatLoading,
                                      !.chip = suggestion])
  /\ UNCHANGED << dashVars, issueVars, runs, actionLoading, resetTimers >>

\* The 100 ms are over: handleSendMessage runs with the chatInput, chatLoading and
\* selectedIssue of the render in which the chip was clicked.
ChipTimeout(i) ==
  /\ calls[i].fn = "handleSendMessage"
  /\ calls[i].pc = "timer"
  /\ IF trim(calls[i].input) = "" \/ calls[i].loading \/ calls[i].id = 0
     THEN /\ calls' = Remove(calls, i)
          /\ UNCHANGED icc
     ELSE /\ icc' = [icc EXCEPT !.chatMessages = Append(@, UserMessage(calls[i].input)),
                                !.chatInput = "", !.chatLoading = TRUE]
          /\ calls' = [calls EXCEPT ![i].pc = "fetch"]
  /\ UNCHANGED << dashVars, issueVars, runs, actionLoading, resetTimers >>

\* handleSendMessage, its fetch settled: a rejection goes to catch (the error
\* message) and finally, a response to response.json().
ChatSettled(i, rejected) ==
  /\ calls[i].fn = "handleSendMessage"
  /\ calls[i].pc = "fetch"
  /\ IF rejected
     THEN /\ icc' = [icc EXCEPT !.chatMessages = Append(@, "error"), !.chatLoading = FALSE]
          /\ calls' = Remove(calls, i)
     ELSE /\ calls' = [calls EXCEPT ![i].pc = "json"]
          /\ UNCHANGED icc
  /\ UNCHANGED << dashVars, issueVars, runs, actionLoading, resetTimers >>

\* handleSendMessage, response.json() settled: the assistant's answer, or the
\* error message of catch; finally setChatLoading(false).
ChatJson(i, body) ==
  /\ calls[i].fn = "handleSendMessage"
  /\ calls[i].pc = "json"
  /\ icc' = [icc EXCEPT !.chatMessages = Append(@, IF body = "object" THEN "assistant" ELSE "error"),
                        !.chatLoading = FALSE]
  /\ calls' = Remove(calls, i)
  /\ UNCHANGED << dashVars, issueVars, runs, actionLoading, resetTimers >>

\* The bounds leave room for one more run: fewer than maxRuns are not yet over, and
\* the queue and the chat can take what the runs in flight will add.
RunRoom(maxRuns) ==
  /\ RunsInFlight(DOMAIN runs) + resetTimers < maxRuns
  /\ Len(pending) + RunsInFlight(DOMAIN runs) < MaxPending
  /\ Len(icc.chatMessages) + Replies + 1 <= MaxChat

\* handleAIRemediation(issue) up to its first await, from the card's button or from
\* the drawer's (disabled while actionLoading is the issue's id): the batched
\* setters leave currentStep 0 and agentLogs empty.
handleAIRemediation(id) ==
  /\ ListShown
  /\ \/ ~icc.drawerOpen /\ id \in IdsOf(issues)
     \/ icc.drawerOpen /\ icc.selectedIssue = id
  /\ actionLoading # id
  /\ actionLoading' = id
  /\ runs' = [runs EXCEPT ![id] = @ + 1]
  /\ icc' = [icc EXCEPT !.agentLogs = << >>, !.currentStep = 0]
  /\ calls' = Append(calls, [Call("handleAIRemediation", id, "analyze") EXCEPT !.steps = << -1, 0 >>])
  /\ UNCHANGED << dashVars, issueVars, resetTimers >>

\* The 1000 ms of stage 0 are over: setCurrentStep(1), and simulateAgentPipeline
\* logs its first agent and waits 800 ms.
AnalyzeDone(i) ==
  /\ calls[i].fn = "handleAIRemediation"
  /\ calls[i].pc = "analyze"
  /\ calls' = [calls EXCEPT ![i].pc = "pipeline", ![i].logs = << AGENT_PIPELINE[1] >>,
                            ![i].steps = Append(@, 1)]
  /\ icc' = [icc EXCEPT !.currentStep = 1, !.agentLogs = << AGENT_PIPELINE[1] >>]
  /\ UNCHANGED << dashVars, issueVars, runs, actionLoading, resetTimers >>

\* simulateAgentPipeline after one of its 800 ms waits: logs.push(log);
\* setAgentLogs([...logs]) for the next agent, or, the loop over, setCurrentStep(2)
\* and the POST to /remediate.
simulateAgentPipeline(i) ==
  /\ calls[i].fn = "handleAIRemediation"
  /\ calls[i].pc = "pipeline"
  /\ IF Len(calls[i].logs) < Len(AGENT_PIPELINE)
     THEN LET logs == Append(calls[i].logs, AGENT_PIPELINE[Len(calls[i].logs) + 1])
          IN  /\ calls' = [calls EXCEPT ![i].logs = logs]
              /\ icc' = [icc EXCEPT !.agentLogs = logs]
     ELSE /\ calls' = [calls EXCEPT ![i].pc = "remediate", ![i].steps = Append(@, 2)]
          /\ icc' = [icc EXCEPT !.currentStep = 2]
  /\ UNCHANGED << dashVars, issueVars, runs, actionLoading, resetTimers >>

\* The chat message of the catch block: its content holds error.message.
Failure(error) == "failure: " \o error

\* Faulty variant: the catch block sends the request again.
CatchRetries(i, error) ==
  /\ actionLoading' = 0
  /\ icc' = [icc EXCEPT !.currentStep = -1, !.chatMessages = Append(@, Failure(error))]
  /\ calls' = [calls EXCEPT ![i].pc = "remediate"]
  /\ UNCHANGED << dashVars, issueVars, resetTimers, runs >>

\* The catch block of handleAIRemediation: setActionLoading(null);
\* setCurrentStep(-1); the failure message in the chat; the function returns.
Catch(i, error) ==
  /\ actionLoading' = 0
  /\ runs' = [runs EXCEPT ![calls[i].id] = @ - 1]
  /\ icc' = [icc EXCEPT !.currentStep = -1, !.chatMessages = Append(@, Failure(error))]
  /\ calls' = Remove(calls, i)
  /\ UNCHANGED << dashVars, issueVars, resetTimers >>

\* Faulty variant: the response in hand, onIssueResolved is called before
\* response.json() and the verification stage.
RemediateSettledResolvesFirst(i, outcome) ==
  /\ calls[i].fn = "handleAIRemediation"
  /\ calls[i].pc = "remediate"
  /\ IF outcome = "throws"
     THEN Catch(i, "Failed to fetch")
     ELSE /\ calls' = [calls EXCEPT ![i].pc = "json", ![i].status = outcome]
          /\ pending' = onIssueResolved(pending, calls[i].id)
          /\ UNCHANGED << dashVars, issues, resolvedIssueIds, resolvedIssueIdsRef,
                          effectPending, staleAtRead, runs, actionLoading, resetTimers, icc >>

\* The fetch of /remediate has thrown, or returned a response of some status.
RemediateSettled(i, outcome) ==
  /\ calls[i].fn = "handleAIRemediation"
  /\ calls[i].pc = "remediate"
  /\ IF outcome = "throws"
     THEN Catch(i, "Failed to fetch")
     ELSE /\ calls' = [calls EXCEPT ![i].pc = "json", ![i].status = outcome]
          /\ UNCHANGED << dashVars, issueVars, runs, actionLoading, resetTimers, icc >>

\* response.json() has settled (its rejection is swallowed, data stays {}):
\* setCurrentStep(3) and the 1000 ms of the verification.
RemediateJson(i, body) ==
  /\ calls[i].fn = "handleAIRemediation"
  /\ calls[i].pc = "json"
  /\ calls' = [calls EXCEPT ![i].pc = "verify", ![i].body = body, ![i].steps = Append(@, 3)]
  /\ icc' = [icc EXCEPT !.currentStep = 3]
  /\ UNCHANGED << dashVars, issueVars, runs, actionLoading, resetTimers >>

\* The verification wait is over.  isSuccess (response.ok || response.status < 500)
\* is computed and logged, and nothing reads it.  data.agent_response of a null
\* body throws into the catch block; else the success message,
\* onIssueResolved(issue.id) and the 1500 ms timer.
VerifyDone(i) ==
  /\ calls[i].fn = "handleAIRemediation"
  /\ calls[i].pc = "verify"
  /\ IF calls[i].body = "null"
     THEN Catch(i, "TypeError")
     ELSE /\ icc' = [icc EXCEPT !.chatMessages = Append(@, "success")]
          /\ pending' = onIssueResolved(pending, calls[i].id)
          /\ resetTimers' = resetTimers + 1
          /\ runs' = [runs EXCEPT ![calls[i].id] = @ - 1]
          /\ calls' = Remove(calls, i)
          /\ UNCHANGED << dashVars, issues, resolvedIssueIds, resolvedIssueIdsRef,
                          effectPending, staleAtRead, actionLoading >>

\* The 1500 ms timer of a run that succeeded: setActionLoading(null);
\* setCurrentStep(-1); setDrawerOpen(false); setSelectedIssue(null).
ResetTimeout ==
  /\ resetTimers > 0
  /\ resetTimers' = resetTimers - 1
  /\ actionLoading' = 0
  /\ icc' = selectedIssueEffect(icc.selectedIssue,
              [icc EXCEPT !.currentStep = -1, !.drawerOpen = FALSE, !.selectedIssue = 0])
  /\ UNCHANGED << dashVars, issueVars, runs, calls >>

(* ------------------- ChatInterface: the handlers ----------------------- *)

\* Every variable of the Dashboard page.
dashboardVars == << wsVars, isConnected, bufVars, miscVars, healthVars, evtVars, issueVars, runVars >>

\* setInputValue(v): onChange of the input field (disabled while isLoading), or
\* handleSuggestionClick(query) of a chip, which no state disables.
setInputValue(v) ==
  /\ chat.inputValue # v
  /\ chat.isLoading => v = "text"
  /\ chat' = [chat EXCEPT !.inputValue = v]
  /\ UNCHANGED << dashboardVars, chatCalls, mock, sh >>

\* handleSendMessage of ChatInterface, called by the send button or by Enter:
\* returns at once on a blank input or while isLoading; else the user's message,
\* setInputValue(''), setIsLoading(true) and the fetch of /api/chat.
ChatInterface_handleSendMessage ==
  /\ chat.calls < MaxSends
  /\ IF trim(chat.inputValue) = "" \/ chat.isLoading
     THEN /\ chat' = [chat EXCEPT !.calls = @ + 1]
          /\ UNCHANGED chatCalls
     ELSE /\ chat' = [chat EXCEPT !.calls = @ + 1, !.messages = Append(@, "user"),
                                  !.inputValue = "", !.isLoading = TRUE]
          /\ chatCalls' = Append(chatCalls, [pc |-> "fetch"])
  /\ UNCHANGED << dashboardVars, mock, sh >>

\* Faulty variant: a response that is not ok is dropped without a fallback message.
ChatFetchSettledSilent(i, outcome) ==
  /\ i \in 1..Len(chatCalls)
  /\ chatCalls[i].pc = "fetch"
  /\ IF outcome = "ok"
     THEN /\ chatCalls' = [chatCalls EXCEPT ![i].pc = "json"]
          /\ UNCHANGED chat
     ELSE /\ chat' = [chat EXCEPT !.isLoading = FALSE]
          /\ chatCalls' = Remove(chatCalls, i)
  /\ UNCHANGED << dashboardVars, mock, sh >>

\* The fetch of /api/chat has settled: response.ok goes on to response.json();
\* another status (else branch) or a rejection (catch) appends the fallback
\* message; finally setIsLoading(false).
ChatFetchSettled(i, outcome) ==
  /\ i \in 1..Len(chatCalls)
  /\ chatCalls[i].pc = "fetch"
  /\ IF outcome = "ok"
     THEN /\ chatCalls' = [chatCalls EXCEPT ![i].pc = "json"]
          /\ UNCHANGED chat
     ELSE /\ chat' = [chat EXCEPT !.messages = Append(@, "fallback"), !.isLoading = FALSE]
          /\ chatCalls' = Remove(chatCalls, i)
  /\ UNCHANGED << dashboardVars, mock, sh >>

\* response.json() of an ok response has settled.  A JSON object whose response is
\* a string (or absent) gives the assistant message; a body that is not JSON, the
\* JSON null (data.response throws) or a response that is no string
\* (response.toLowerCase throws) goes to catch: the fallback message.  finally
\* setIsLoading(false).
ChatBodySettled(i, body, isString) ==
  /\ i \in 1..Len(chatCalls)
  /\ chatCalls[i].pc = "json"
  /\ chat' = [chat EXCEPT !.messages = Append(@, IF body = "object" /\ isString THEN "api" ELSE "fallback"),
                          !.isLoading = FALSE]
  /\ chatCalls' = Remove(chatCalls, i)
  /\ UNCHANGED << dashboardVars, mock, sh >>


(* --------------------------- specifications ---------------------------- *)

Sockets == 1..Len(ws.socks)
IssueData == [id : Ids, rev : Revs]

\* The streaming client with the generator and the Dashboard effect, from page load.
NextWs ==
  \/ EffectMount
  \/ EffectRerun
  \/ EffectUnmount
  \/ \E s \in Sockets : ConnectEvt(s)
  \/ \E s \in Sockets : DisconnectEvt(s)
  \/ \E s \in Sockets : ConnectErrorEvt(s)
  \/ FetchInitialDataDone
  \/ \E s \in Sockets : LiveHealth(s)
  \/ MockTick
  \/ Render

SpecWs == Init /\ [][NextWs]_vars

\* The timer of a running generator fires, and React renders what is queued.
FairSpecWs == SpecWs /\ WF_vars(MockTick) /\ WF_vars(Render)

\* The issue lifecycle of a mounted Dashboard on a live connection.
NextIssues ==
  \/ \E s \in Sockets, data \in IssueData : LiveIssue(s, data)
  \/ \E id \in Ids : StartRemediation(id)
  \/ \E id \in Ids : RemediationResolved(id)
  \/ \E id \in Ids : RemediationFailed(id)
  \/ ResetTimer
  \/ Render
  \/ RefSync

SpecIssues == InitLive /\ [][NextIssues]_vars

\* The rolling buffers of a mounted Dashboard on a live connection.
NextBuffers ==
  \/ \E s \in Sockets : LiveTelemetry(s)
  \/ \E s \in Sockets : LiveActiveUsers(s)

SpecBuffers == InitLive /\ [][NextBuffers]_vars

\* The service called in any order: connect() and disconnect() by themselves.
NextService ==
  \/ EffectMount
  \/ ServiceConnect
  \/ ServiceDisconnect
  \/ \E s \in Sockets : ConnectEvt(s)
  \/ \E s \in Sockets : DisconnectEvt(s)
  \/ \E s \in Sockets : ConnectErrorEvt(s)
  \/ \E s \in Sockets : LiveTelemetry(s)
  \/ FetchInitialDataDone

SpecService == Init /\ [][NextService]_vars

\* A production build on a live connection, n issues of the server received and
\* rendered, nothing selected.
InitShown(n) ==
  /\ ws = LiveService(1)
  /\ healthFetches = 0
  /\ mounted = TRUE
  /\ isConnected = TRUE
  /\ lastEvt = "connect"
  /\ telemetryData = << >>
  /\ activeUsers = << >>
  /\ issues = [i \in 1..n |-> [id |-> n + 1 - i, rev |-> 1]]
  /\ resolvedIssueIds = {}
  /\ resolvedIssueIdsRef = {}
  /\ resolutions = << >>
  /\ lastRemediation = "No recent actions"
  /\ globalHealth = 950
  /\ systemStatus = "Operational"
  /\ lastHealth = NoHealth
  /\ pending = << >>
  /\ effectPending = FALSE
  /\ runs = [i \in 1..n |-> 0]
  /\ actionLoading = 0
  /\ resetTimers = 0
  /\ icc = IccFresh
  /\ calls = << >>
  /\ issueCounter = 0
  /\ ticks = 0
  /\ tickDelivered = FALSE
  /\ misfired = {}
  /\ staleAtRead = {}
  /\ RestFresh

\* The state SpecRun starts from.
InitRun == InitShown(MaxIds)

\* A timer of the run at position i fires, or its network call settles.
RunStep(i) ==
  /\ i \in 1..Len(calls)
  /\ \/ AnalyzeDone(i)
     \/ simulateAgentPipeline(i)
     \/ \E outcome \in Outcomes : RemediateSettled(i, outcome)
     \/ \E body \in Bodies : RemediateJson(i, body)
     \/ VerifyDone(i)

\* A timer of the call at position i fires, or its network call settles.
CallStep(i) ==
  /\ i \in 1..Len(calls)
  /\ \/ RunStep(i)
     \/ \E rejected \in BOOLEAN : AnalysisSettled(i, rejected)
     \/ \E body \in Bodies, valid \in BOOLEAN : AnalysisJson(i, body, valid)
     \/ ChipTimeout(i)
     \/ \E rejected \in BOOLEAN : ChatSettled(i, rejected)
     \/ \E body \in Bodies : ChatJson(i, body)

\* IssueCommandCenter in a mounted Dashboard: the user's clicks, the timers and
\* the network calls of the handlers, the renders of the Dashboard.
NextRun ==
  \/ \E id \in Ids : AgentRoom(MaxCalls) /\ handleViewDetails(id)
  \/ handleCloseDrawer
  \/ AgentRoom(MaxCalls) /\ handleAnalyzeIssue
  \/ \E v \in Inputs : setChatInput(v)
  \/ AgentRoom(MaxCalls) /\ handleSendMessage
  \/ \E suggestion \in Suggestions : AgentRoom(MaxCalls) /\ ChipClick(suggestion)
  \/ \E id \in Ids : RunRoom(MaxRuns) /\ handleAIRemediation(id)
  \/ \E i \in 1..(MaxRuns + MaxCalls) : CallStep(i)
  \/ ResetTimeout
  \/ Render

SpecRun == InitRun /\ [][NextRun]_vars

\* Every timer fires and every network call settles (with a response or an
\* error); React renders what is queued.
FairSpecRun ==
  /\ SpecRun
  /\ \A i \in 1..(MaxRuns + MaxCalls) : WF_vars(CallStep(i))
  /\ WF_vars(ResetTimeout)
  /\ WF_vars(Render)

\* The panel with several issues shown: the remediation buttons of the cards, the
\* runs they start, the renders of the Dashboard.
NextPanel ==
  \/ \E id \in 1..MaxShown : RunRoom(MaxPanelRuns) /\ handleAIRemediation(id)
  \/ \E i \in 1..MaxPanelRuns : RunStep(i)
  \/ ResetTimeout
  \/ Render

SpecPanel == InitShown(MaxShown) /\ [][NextPanel]_vars

\* The drawer with several issues shown: the user opens and closes it, and asks
\* for a new analysis; the analysis calls settle.
NextDrawer ==
  \/ \E id \in 1..MaxShown : AgentRoom(MaxPanelCalls) /\ handleViewDetails(id)
  \/ handleCloseDrawer
  \/ AgentRoom(MaxPanelCalls) /\ handleAnalyzeIssue
  \/ \E i \in 1..MaxPanelCalls, rejected \in BOOLEAN : i <= Len(calls) /\ AnalysisSettled(i, rejected)
  \/ \E i \in 1..MaxPanelCalls, body \in Bodies, valid \in BOOLEAN :
       i <= Len(calls) /\ AnalysisJson(i, body, valid)

SpecDrawer == InitShown(MaxShown) /\ [][NextDrawer]_vars

\* The ChatInterface page: the user types, clicks chips, sends; the calls settle.
NextChat ==
  \/ \E v \in Inputs : setInputValue(v)
  \/ ChatInterface_handleSendMessage
  \/ \E i \in 1..MaxSends, outcome \in Outcomes : ChatFetchSettled(i, outcome)
  \/ \E i \in 1..MaxSends, body \in Bodies, isString \in BOOLEAN : ChatBodySettled(i, body, isString)

SpecChat == Init /\ [][NextChat]_vars

\* Every network call settles, with a response or an error.
FairSpecChat ==
  /\ SpecChat
  /\ WF_vars(\E i \in 1..MaxSends, outcome \in Outcomes : ChatFetchSettled(i, outcome))
  /\ WF_vars(\E i \in 1..MaxSends, body \in Bodies, isString \in BOOLEAN : ChatBodySettled(i, body, isString))

(* ------------------- MockWebSocketService (mockData.js) ---------------- *)

\* The streams startMockStreams starts, in the order of their setInterval.
MockStreams == << "telemetry", "activeUsers", "issue", "health" >>

\* Everything but the service and the generator's counter.
mockRest == << ws, healthFetches, mounted, isConnected, bufVars, miscVars, healthVars, evtVars,
               issueVars, runVars, chat, chatCalls, sh >>

\* generateMockIssue() with issueCounter = counter: null (id 0) from the limit on,
\* else the next issue; counter is issueCounter afterwards.
generateMockIssue(counter) ==
  IF counter >= MAX_MOCK_ISSUES
  THEN [id |-> 0, counter |-> counter]
  ELSE [id |-> counter + 1, counter |-> counter + 1]

\* emit(event, data): every callback registered for event is called with data.
MockEmit(event, id) ==
  IF mock.listeners[event] > 0
  THEN [mock EXCEPT !.last = [ch |-> event, id |-> id]]
  ELSE mock

\* on(event, callback).
MockOn(event) ==
  /\ mock.listeners[event] < MaxMockListeners
  /\ mock' = [mock EXCEPT !.listeners[event] = @ + 1]
  /\ UNCHANGED << issueCounter, mockRest >>

\* connect(onConnect): startMockStreams() pushes its four intervals.
MockConnect ==
  /\ Len(mock.intervals) < 4 * MaxMockConnects
  /\ mock' = [mock EXCEPT !.intervals = @ \o MockStreams]
  /\ UNCHANGED << issueCounter, mockRest >>

\* disconnect(): clearInterval for every interval, intervals = [].
MockDisconnect ==
  /\ mock.intervals # << >>
  /\ mock' = [mock EXCEPT !.intervals = << >>]
  /\ UNCHANGED << issueCounter, mockRest >>

\* A tick of the telemetry, activeUsers or health interval: emit a fresh payload.
MockStreamTick(k) ==
  /\ k \in DOMAIN mock.intervals
  /\ mock.intervals[k] # "issue"
  /\ mock' = MockEmit(mock.intervals[k], 1)
  /\ UNCHANGED << issueCounter, mockRest >>

\* A tick of the issue interval: if (Math.random() > 0.7) emit("issue",
\* generateMockIssue()); the argument is evaluated whoever listens.
MockIssueTick(k, random) ==
  /\ k \in DOMAIN mock.intervals
  /\ mock.intervals[k] = "issue"
  /\ IF random
     THEN LET g == generateMockIssue(issueCounter)
          IN /\ issueCounter' = g.counter
             /\ mock' = MockEmit("issue", g.id)
     ELSE UNCHANGED << issueCounter, mock >>
  /\ UNCHANGED mockRest

\* The demo mode: a MockWebSocketService, its subscribers and its timers.
NextMock ==
  \/ \E event \in Channels : MockOn(event)
  \/ MockConnect
  \/ MockDisconnect
  \/ \E k \in 1..(4 * MaxMockConnects) : MockStreamTick(k)
  \/ \E k \in 1..(4 * MaxMockConnects), random \in BOOLEAN : MockIssueTick(k, random)

SpecMock == Init /\ [][NextMock]_vars

(* ------------------------------ cleanup.sh ----------------------------- *)

Backslash == "\\"
Newline == "\n"
\* What standard input is made of: letters, a blank, a backslash, a newline.
Chars == {"y", "e", "s", " ", Backslash, Newline}

\* Everything but the script's run.
shRest == << dashboardVars, chat, chatCalls, mock >>

\* read (without -r) scanning s from position i: a backslash is removed and quotes
\* the next character, backslash-newline continues the line, an unquoted newline
\* ends it; the end of input before that newline is a failure.
RECURSIVE ReadScan(_, _, _)
ReadScan(s, i, acc) ==
  IF i > Len(s) THEN [ok |-> FALSE, chars |-> acc]
  ELSE IF s[i] = Newline THEN [ok |-> TRUE, chars |-> acc]
  ELSE IF s[i] = Backslash
       THEN IF i + 1 > Len(s) THEN [ok |-> FALSE, chars |-> acc]
            ELSE IF s[i + 1] = Newline THEN ReadScan(s, i + 2, acc)
            ELSE ReadScan(s, i + 2, Append(acc, [c |-> s[i + 1], esc |-> TRUE]))
  ELSE ReadScan(s, i + 1, Append(acc, [c |-> s[i], esc |-> FALSE]))

\* IFS whitespace that no backslash quoted.
IsIfsBlank(x) == x.c = " " /\ ~x.esc

RECURSIVE TrimLeft(_)
TrimLeft(cs) == IF cs # << >> /\ IsIfsBlank(Head(cs)) THEN TrimLeft(Tail(cs)) ELSE cs

RECURSIVE TrimRight(_)
TrimRight(cs) ==
  IF cs # << >> /\ IsIfsBlank(cs[Len(cs)]) THEN TrimRight(SubSeq(cs, 1, Len(cs) - 1)) ELSE cs

RECURSIVE Text(_)
Text(cs) == IF cs = << >> THEN "" ELSE Head(cs).c \o Text(Tail(cs))

\* read -p "..." confirm on input s: its exit status and the value of $confirm, the
\* line with leading and trailing IFS whitespace removed.
read(s) ==
  LET r == ReadScan(s, 1, << >>)
  IN [ok |-> r.ok, value |-> Text(TrimRight(TrimLeft(r.chars)))]

\* The script after its confirmation, phase by phase: the delete commands of a
\* "fixed" phase (4 stacks; delete-table and delete-database; s3 rm and s3 rb for 5
\* buckets; 6 rm -f), one delete command per resource a "listed" phase has listed
\* (functions, agents, state machines, APIs), and aws sts get-caller-identity.
ShPhases ==
  << [kind |-> "fixed", n |-> 4], [kind |-> "listed", n |-> 0], [kind |-> "listed", n |-> 0],
     [kind |-> "listed", n |-> 0], [kind |-> "listed", n |-> 0], [kind |-> "fixed", n |-> 2],
     [kind |-> "identity", n |-> 0], [kind |-> "fixed", n |-> 10], [kind |-> "fixed", n |-> 6] >>

\* The script s at the start of phase p.
ShEnter(s, p) ==
  IF p > Len(ShPhases) THEN [s EXCEPT !.pc = "complete", !.phase = p, !.left = 0]
  ELSE IF ShPhases[p].kind = "fixed"
       THEN [s EXCEPT !.pc = "delete", !.phase = p, !.left = ShPhases[p].n]
       ELSE IF ShPhases[p].kind = "listed" THEN [s EXCEPT !.pc = "list", !.phase = p, !.left = 0]
       ELSE [s EXCEPT !.pc = "identity", !.phase = p, !.left = 0]

\* One more character on standard input, before read returns.
ShType(c) ==
  /\ sh.pc = "read"
  /\ Len(sh.stdin) < MaxInput
  /\ sh' = [sh EXCEPT !.stdin = Append(@, c)]
  /\ UNCHANGED shRest

\* read returns: with a line, or with a failure at the end of input, which under
\* set -e ends the script with status 1.
ShRead ==
  /\ sh.pc = "read"
  /\ LET r == read(sh.stdin)
     IN sh' = [sh EXCEPT !.pc = IF r.ok THEN "test" ELSE "failed", !.confirm = r.value]
  /\ UNCHANGED shRest

\* Faulty variant: only an empty answer cancels.
ShTestNonEmpty ==
  /\ sh.pc = "test"
  /\ sh' = IF sh.confirm = "" THEN [sh EXCEPT !.pc = "cancelled"] ELSE ShEnter(sh, 1)
  /\ UNCHANGED shRest

\* if [ "$confirm" != "yes" ]; then echo "Cleanup cancelled."; exit 0; fi
ShTest ==
  /\ sh.pc = "test"
  /\ sh' = IF sh.confirm # "yes" THEN [sh EXCEPT !.pc = "cancelled"] ELSE ShEnter(sh, 1)
  /\ UNCHANGED shRest

\* The next delete command of the phase; its failure is ignored (|| true, || echo).
ShDelete ==
  /\ sh.pc = "delete"
  /\ sh.left > 0
  /\ LET s == [sh EXCEPT !.deletes = @ + 1, !.left = @ - 1]
     IN sh' = IF s.left = 0 THEN ShEnter(s, sh.phase + 1) ELSE s
  /\ UNCHANGED shRest

\* A list command returns n resources to delete (none when it fails: || echo "").
ShList(n) ==
  /\ sh.pc = "list"
  /\ sh' = IF n = 0 THEN ShEnter(sh, sh.phase + 1) ELSE [sh EXCEPT !.pc = "delete", !.left = n]
  /\ UNCHANGED shRest

\* ACCOUNT_ID=$(aws sts get-caller-identity ...): a failure ends the script (set -e).
ShIdentity(ok) ==
  /\ sh.pc = "identity"
  /\ sh' = IF ok THEN ShEnter(sh, sh.phase + 1) ELSE [sh EXCEPT !.pc = "failed"]
  /\ UNCHANGED shRest

NextCleanup ==
  \/ \E c \in Chars : ShType(c)
  \/ ShRead
  \/ ShTest
  \/ ShDelete
  \/ \E n \in 0..MaxListed : ShList(n)
  \/ \E ok \in BOOLEAN : ShIdentity(ok)

SpecCleanup == Init /\ [][NextCleanup]_vars

Next ==
  \/ NextRun
  \/ NextChat
  \/ NextMock
  \/ NextCleanup
  \/ NextWs
  \/ NextIssues
  \/ NextBuffers
  \/ \E s \in Sockets : LiveResolution(s)

Spec == Init /\ [][Next]_vars


(* ------------------------------- claims -------------------------------- *)

NoDup(list) == \A i, j \in 1..Len(list) : list[i].id = list[j].id => i = j

\* What resolvedIssueIdsRef.current holds while the next render runs its updaters.
RefAtRender == IF effectPending THEN resolvedIssueIds ELSE resolvedIssueIdsRef

\* C1: no id of resolvedIssueIds is in the active issues list.
C1_ResolvedNeverActive == resolvedIssueIds \cap IdsOf(issues) = {}

\* C2: whenever the issue updater reads resolvedIssueIdsRef.current, the ref holds
\* every id onIssueResolved has been called with.
C2_RefReadFresh == staleAtRead = {}

\* C3: telemetryData never holds more than 100 samples, activeUsers never more than 60.
C3_BuffersBounded ==
  /\ Len(telemetryData) <= TelemetryKeep
  /\ Len(activeUsers) <= ActiveUsersKeep

C5_InsertIdempotent ==
  /\ NoDup(issues)
  /\ (\A i \in 1..Len(pending) : pending[i].op = "insert" /\ pending[i].id \in IdsOf(issues))
       => ReduceIssues(pending, issues, RefAtRender) = issues
  /\ \A data \in IssueData :
       data.id \in IdsOf(issues) => IssueUpdater(issues, RefAtRender, data) = issues

\* An issue event for an active id, with another payload, delivered to two callbacks.
C5_Witness ==
  /\ pending # << >>
  /\ \A i \in 1..Len(pending) :
       /\ pending[i].op = "insert"
       /\ pending[i].n >= 2
       /\ \E j \in 1..Len(issues) :
            issues[j].id = pending[i].id /\ issues[j].rev # pending[i].rev

\* C6: no committed state has an id both resolved and active, and no step takes
\* an id out of the active list without its being in the resolved set afterwards.
C6_ResolutionAtomic ==
  /\ [](resolvedIssueIds \cap IdsOf(issues) = {})
  /\ [][(IdsOf(issues) \ IdsOf(issues')) \subseteq resolvedIssueIds']_vars

\* What a render commits for the queue q.
Committed(q) ==
  [ issues |-> ReduceIssues(q, issues, RefAtRender),
    resolved |-> ReduceResolved(q, resolvedIssueIds) ]

\* C7: a second onIssueResolved(id) right after the first commits the same issues
\* and resolvedIssueIds as the first alone, and resolvedIssueIds never loses an id.
C7_ResolveIdempotentMonotone ==
  /\ [](\A id \in Ids :
          Committed(onIssueResolved(onIssueResolved(pending, id), id))
            = Committed(onIssueResolved(pending, id)))
  /\ [][resolvedIssueIds \subseteq resolvedIssueIds']_vars

\* onIssueResolved is called for an id that an earlier call has already resolved.
C7_Witness ==
  \E id \in resolvedIssueIds :
    /\ \E i \in 1..Len(pending) : pending[i].op = "resolve" /\ pending[i].id = id

\* A step in which a socket's 'connect' fires.
IsConnectStep == \E s \in Sockets : ws.socks[s] = "connecting" /\ ws'.socks[s] = "connected"

\* C8: a 'connect' leaves no generator timer and has called onConnect (isConnected
\* is true), and while 'connect' stays the last lifecycle event the generator
\* neither ticks nor emits its initial health snapshot.
C8_ConnectStopsMock ==
  /\ [][IsConnectStep => (~ws'.mockInterval /\ ws'.timers = 0 /\ isConnected')]_vars
  /\ [][(lastEvt = "connect" /\ lastEvt' = "connect")
          => (ticks' = ticks /\ ws'.timers = 0 /\ ~ws'.mockInterval)]_vars

\* The generator had ticked, then the socket connected.
C8_Witness ==
  /\ lastEvt = "connect"
  /\ ticks > 0
  /\ isConnected
  /\ ~ws.mockInterval

\* C9: after a disconnect or connect_error the generator ticks and calls the
\* telemetry and activeUsers callbacks, unless the socket connects first; every
\* tick appends a fresh sample to both buffers of a mounted Dashboard; after a
\* connect there is no generator.
C9_MockAfterLoss ==
  /\ (lastEvt \in {"disconnect", "connect_error"} /\ ~tickDelivered /\ ticks < MaxTicks)
       ~> (tickDelivered \/ lastEvt = "connect")
  /\ [][(ticks' # ticks /\ mounted) =>
          /\ telemetryData' # << >> /\ telemetryData'[Len(telemetryData')] = 0
          /\ activeUsers' # << >> /\ activeUsers'[Len(activeUsers')] = 0
          /\ Len(telemetryData') >= Len(telemetryData)
          /\ Len(activeUsers') >= Len(activeUsers)]_vars
  /\ [](lastEvt = "connect" => ws.timers = 0)

\* The connection was lost and the generator has ticked since.
C9_Witness ==
  /\ lastEvt = "disconnect"
  /\ tickDelivered
  /\ telemetryData # << >>
  /\ activeUsers # << >>

\* C10: once connect_error is the last lifecycle event, the generator runs and
\* isConnected is true, though no socket is connected.
C10_ConnectErrorLooksConnected ==
  lastEvt = "connect_error" =>
    /\ ws.timers > 0
    /\ isConnected
    /\ ws.useMockData
    /\ \A s \in Sockets : ws.socks[s] # "connected"

\* The first attempt failed: never a live connection, the Dashboard shows connected.
C10_Witness ==
  /\ lastEvt = "connect_error"
  /\ isConnected
  /\ ~Connected(ws)
  /\ ws.timers > 0
  /\ ticks > 0

\* C11: every emission has invoked each callback registered on its channel exactly
\* once, in registration order, and no callback of another channel; the arrays of
\* listeners hold the callbacks of their channel in registration order.
C11_FanoutInOrder ==
  /\ misfired = {}
  /\ \A c \in Channels : ws.listeners[c] = InOrder(c, Len(ws.listeners[c]))

\* The generator has ticked with two callbacks registered on every channel, and
\* the mounted Dashboard holds the two samples they appended.
C11_Witness ==
  /\ \A c \in Channels : Len(ws.listeners[c]) = 2
  /\ mounted
  /\ tickDelivered
  /\ Len(telemetryData) >= 2
  /\ Len(activeUsers) >= 2

\* C12: at most one socket is alive, so at most one socket forwards a server event.
C12_SingleSocket == Cardinality(Alive(ws)) <= 1

\* The remediation runs in flight among the calls cs.
RunsIn(cs) == { i \in 1..Len(cs) : cs[i].fn = "handleAIRemediation" }

IsPrefix(s, t) == Len(s) <= Len(t) /\ s = SubSeq(t, 1, Len(s))

\* C13: while one remediation run is in flight, currentStep stays or moves to the
\* next stage (never back, never over a stage), agentLogs holds the agents of the
\* pipeline in order, one entry each, and the run is at or past the POST to
\* /remediate only with the five agents logged.
C13_StagesInOrder ==
  [][ (Cardinality(RunsIn(calls)) = 1 /\ Cardinality(RunsIn(calls')) = 1)
      => /\ icc'.currentStep \in {icc.currentStep, icc.currentStep + 1}
         /\ IsPrefix(icc'.agentLogs, AGENT_PIPELINE)
         /\ \A i \in RunsIn(calls') :
              calls'[i].pc \in {"remediate", "json", "verify"} => calls'[i].logs = AGENT_PIPELINE
    ]_vars

\* C14: when the fetch of /remediate throws, the step that handles it does not
\* call onIssueResolved (nothing is queued on issues or resolvedIssueIds, no timer is
\* armed), appends one failure message to the chat, sets actionLoading to null and
\* currentStep to -1, and ends the run without another request.
C14_ThrowIsCaught ==
  [][ \A i \in 1..Len(calls) :
        RemediateSettled(i, "throws")
        => /\ pending' = pending
           /\ issues' = issues
           /\ resolvedIssueIds' = resolvedIssueIds
           /\ resetTimers' = resetTimers
           /\ icc'.chatMessages = Append(icc.chatMessages, Failure("Failed to fetch"))
           /\ actionLoading' = 0
           /\ icc'.currentStep = -1
           /\ calls' = Remove(calls, i)
    ]_vars

\* A run has failed on a thrown fetch and the issue is still active.
C14_Witness ==
  /\ \E k \in 1..Len(icc.chatMessages) : icc.chatMessages[k] = Failure("Failed to fetch")
  /\ calls = << >>
  /\ actionLoading = 0
  /\ icc.currentStep = -1
  /\ 1 \in IdsOf(issues)
  /\ Requested = {}

\* C15: a run whose /remediate response was ok or had a status below 500, whatever
\* its body, ends with onIssueResolved(issue.id) called once and the success message
\* appended to the chat.
C15_ResponseIsSuccess ==
  [][ \A i \in 1..Len(calls) :
        (calls[i].status \in {"ok", "below500"} /\ VerifyDone(i))
        => /\ pending' = onIssueResolved(pending, calls[i].id)
           /\ icc'.chatMessages = Append(icc.chatMessages, "success")
           /\ calls' = Remove(calls, i)
    ]_vars

\* C20: a run whose /remediate response had a status of 500 or above ends without
\* a call of onIssueResolved: nothing is queued on issues or resolvedIssueIds.
C20_ServerErrorIsFailure ==
  [][ \A i \in 1..Len(calls) :
        (calls[i].status = "server" /\ VerifyDone(i)) => pending' = pending
    ]_vars

\* C16: a run for issue id during which the drawer was closed, and whose
\* /remediate call has returned a response, leads to onIssueResolved(id).
C16_ClosedRunResolves ==
  \A id \in Ids :
    (\E i \in RunsIn(calls) :
       calls[i].id = id /\ calls[i].closed /\ calls[i].pc \in {"json", "verify"})
    ~> (id \in Requested)

\* A network call of an /agent handler settles for good: the handler runs to its end.
AnalysisEnds(i) ==
  \/ AnalysisSettled(i, TRUE)
  \/ \E body \in Bodies, valid \in BOOLEAN : AnalysisJson(i, body, valid)

ChatEnds(i) ==
  \/ ChatSettled(i, TRUE)
  \/ \E body \in Bodies : ChatJson(i, body)

\* C17: chatLoading, analysisLoading and actionLoading, once set, return to false,
\* false and null; the step in which a chat call or an analysis call settles (a
\* rejected fetch, a body of any kind) sets its flag to false, and the analysis
\* step leaves aiAnalysis non-null.
C17_LoadingEnds ==
  /\ icc.chatLoading ~> ~icc.chatLoading
  /\ icc.analysisLoading ~> ~icc.analysisLoading
  /\ (actionLoading # 0) ~> (actionLoading = 0)
  /\ [][ \A i \in 1..Len(calls) :
           /\ ChatEnds(i) => ~icc'.chatLoading
           /\ AnalysisEnds(i) => ~icc'.analysisLoading /\ icc'.aiAnalysis # null
       ]_vars

\* A chat call has failed, an analysis has settled and a run has succeeded and
\* its timer has fired: nothing is in flight and the three flags are idle.
C17_Witness ==
  /\ calls = << >>
  /\ resetTimers = 0
  /\ ~icc.chatLoading
  /\ ~icc.analysisLoading
  /\ actionLoading = 0
  /\ icc.aiAnalysis # null
  /\ \E k \in 1..Len(icc.chatMessages) : icc.chatMessages[k] = "error"
  /\ \E k \in 1..Len(icc.chatMessages) : icc.chatMessages[k] = "success"

\* The most recent keep samples, oldest first, once one more sample has arrived
\* after those of prev.
MostRecent(prev, keep) ==
  SliceLast(Append([i \in 1..Len(prev) |-> prev[i] + 1], 0), keep)

\* C18: with one callback registered per channel, a telemetry (activeUsers) event
\* leaves in the buffer the most recent 100 (60) samples at most, oldest first and
\* the new one last: from the empty buffer, min(k, N) samples after k events.
C18_MostRecentN ==
  [][ \A s \in Sockets :
        /\ (Updaters("telemetry") = 1 /\ LiveTelemetry(s))
           => telemetryData' = MostRecent(telemetryData, TelemetryKeep)
        /\ (Updaters("activeUsers") = 1 /\ LiveActiveUsers(s))
           => activeUsers' = MostRecent(activeUsers, ActiveUsersKeep)
    ]_vars

\* C19: once a health payload has been handed to the callbacks of a mounted
\* Dashboard, globalHealth and systemStatus are the score and the status of the last
\* payload handed over, whichever source it came from.
C19_HealthIsLatest ==
  (mounted /\ lastHealth # NoHealth)
  => (globalHealth = lastHealth.score /\ systemStatus = lastHealth.status)

\* A payload of the server is the last one, after the generator has run (and
\* handed over its snapshot) and the /health fetch has settled.
C19_Witness ==
  /\ mounted
  /\ lastHealth \in ServerHealth
  /\ globalHealth = 700
  /\ ticks > 0
  /\ healthFetches = 0

\* A step in which onIssueResolved(id) is called: its two updaters are queued.
Resolves(id) ==
  /\ Len(pending') = Len(pending) + 1
  /\ pending'[Len(pending')] = ResolveUpdate(id)

\* C21: a step that calls onIssueResolved(id) is the last step of a run for id that
\* has passed 3 to setCurrentStep (after 0, 1 and 2) and whose /remediate call has
\* returned a response; and an id leaves the active list only in a render that
\* follows such a call.
C21_ResolvedAfterVerification ==
  /\ [][ \A id \in Ids :
           Resolves(id)
           => \E i \in RunsIn(calls) :
                /\ calls[i].id = id
                /\ calls[i].steps = << -1, 0, 1, 2, 3 >>
                /\ calls[i].status \in Statuses
                /\ calls[i].body \in Bodies
                /\ calls' = Remove(calls, i)
       ]_vars
  /\ [][ (IdsOf(issues) \ IdsOf(issues')) \subseteq Requested ]_vars

\* A run went through its four stages and called onIssueResolved, and the render
\* took the issue out of the list.
C21_Witness ==
  /\ 1 \in resolvedIssueIds
  /\ 1 \notin IdsOf(issues)
  /\ \E k \in 1..Len(icc.chatMessages) : icc.chatMessages[k] = "success"

\* A call of ChatInterface's handleSendMessage is made in this step.
SendCalled == chat'.calls = chat.calls + 1

SendRefused == trim(chat.inputValue) = "" \/ chat.isLoading

\* The messages after the welcome are pairs of a user message and one assistant
\* message, the last pair lacking its answer exactly while loading.
RECURSIVE Paired(_, _)
Paired(ms, loading) ==
  IF ms = << >> THEN ~loading
  ELSE IF Len(ms) = 1 THEN ms[1] = "user" /\ loading
  ELSE ms[1] = "user" /\ ms[2] \in {"api", "fallback"} /\ Paired(SubSeq(ms, 3, Len(ms)), loading)

\* C22: a call of handleSendMessage on a blank input or while isLoading changes
\* nothing; an accepted call appends the user's message, sets isLoading and starts
\* one request; at most one request is in flight, and isLoading is true exactly
\* then; every user message is followed by exactly one assistant message once its
\* request has settled: the response's content for an ok response with a usable
\* body, the fallback for any other status and for any thrown error; the step
\* that appends it sets isLoading to false, and isLoading always returns to false.
C22_SendsSerializedAnswered ==
  /\ [][ (SendCalled /\ SendRefused)
         => (chat'.messages = chat.messages /\ chat'.inputValue = chat.inputValue
             /\ chat'.isLoading = chat.isLoading /\ chatCalls' = chatCalls) ]_vars
  /\ [][ (SendCalled /\ ~SendRefused)
         => (chat'.messages = Append(chat.messages, "user") /\ chat'.isLoading
             /\ chatCalls' = Append(chatCalls, [pc |-> "fetch"])) ]_vars
  /\ [](Len(chatCalls) <= 1 /\ (chat.isLoading <=> chatCalls # << >>))
  /\ [](chat.messages[1] = "welcome" /\ Paired(Tail(chat.messages), chat.isLoading))
  /\ [][ \A i \in 1..Len(chatCalls) :
           /\ ChatBodySettled(i, "object", TRUE)
              => chat'.messages = Append(chat.messages, "api") /\ ~chat'.isLoading
           /\ (\E outcome \in Outcomes \ {"ok"} : ChatFetchSettled(i, outcome))
              => chat'.messages = Append(chat.messages, "fallback") /\ ~chat'.isLoading
           /\ (\E body \in Bodies, isString \in BOOLEAN :
                 ~(body = "object" /\ isString) /\ ChatBodySettled(i, body, isString))
              => chat'.messages = Append(chat.messages, "fallback") /\ ~chat'.isLoading
       ]_vars
  /\ chat.isLoading ~> ~chat.isLoading

\* Two sends were answered, one by the response and one by the fallback, and one
\* call was refused.
C22_Witness ==
  /\ chat.calls = 3
  /\ Len(chat.messages) = 5
  /\ \E k \in 1..5 : chat.messages[k] = "api"
  /\ \E k \in 1..5 : chat.messages[k] = "fallback"
  /\ ~chat.isLoading

\* C23: a mounted Dashboard has exactly one callback registered on every channel,
\* and one tick of the generator (one telemetry event, at most one resolution
\* event) appends one sample to telemetryData and at most one entry to resolutions.
C23_OneCallbackPerChannel ==
  /\ [](mounted => \A c \in Channels : Len(ws.listeners[c]) = 1)
  /\ [][ (mounted /\ ticks' = ticks + 1)
         => /\ Len(telemetryData') = Len(telemetryData) + 1
            /\ Len(resolutions') <= Len(resolutions) + 1 ]_vars

\* disconnect() has returned and connect() has not been called since.
Disconnected == ws.socks # << >> /\ ws.socket = 0

\* C24: between the return of disconnect() and the next connect(), no generator
\* timer is active, the generator does not tick and no health payload is handed
\* to a callback.
C24_DisconnectStopsDelivery ==
  /\ [](Disconnected => (ws.timers = 0 /\ ~ws.mockInterval))
  /\ [][ (Disconnected /\ Disconnected') => (ticks' = ticks /\ lastHealth' = lastHealth) ]_vars

\* C25: at most one generator timer is alive, and it is the one mockInterval
\* holds; a disconnect or connect_error event leaves exactly one timer, whether
\* or not the generator was running before it.
C25_OneGeneratorTimer ==
  /\ [](ws.timers <= 1 /\ (ws.mockInterval <=> ws.timers = 1))
  /\ [][ (\E s \in Sockets : DisconnectEvt(s) \/ ConnectErrorEvt(s))
         => (ws'.timers = 1 /\ ws'.mockInterval) ]_vars

\* The generator was running and had ticked when a further connection attempt failed.
C25_Witness ==
  /\ mounted
  /\ lastEvt = "connect_error"
  /\ ticks > 0
  /\ ~tickDelivered
  /\ ws.timers = 1

\* The runs in flight for issue id.
RunsFor(id) == { i \in RunsIn(calls) : calls[i].id = id }

\* C26: no issue id has two remediation runs in flight.
C26_OneRunPerIssue == \A id \in DOMAIN runs : Cardinality(RunsFor(id)) <= 1

\* C27: an analysis shown while an issue is selected is the one of a
\* handleAnalyzeIssue call made for that issue.
C27_AnalysisOfSelected ==
  (icc.selectedIssue # 0 /\ icc.aiAnalysis # null) => icc.aiAnalysis.id = icc.selectedIssue

\* C29: a click on a chip made with no chat request in flight and an issue selected
\* sends the clicked suggestion: when its timer fires, one user message with the
\* suggestion as content is appended to chatMessages and one request carrying the
\* suggestion starts, whatever the input field held before the click.
C29_ChipSendsSuggestion ==
  [][\A i \in DOMAIN calls :
       (/\ calls[i].fn = "handleSendMessage"
        /\ calls[i].pc = "timer"
        /\ ~calls[i].loading
        /\ calls[i].id # 0
        /\ ~calls[i].closed
        /\ ChipTimeout(i))
       => (/\ icc'.chatMessages = Append(icc.chatMessages, UserMessage(calls[i].chip))
           /\ calls'[i].pc = "fetch"
           /\ calls'[i].input = calls[i].chip)]_vars

\* C28: a synthetic source never calls an issue subscriber with a null payload:
\* the last emission of the MockWebSocketService that invoked a callback on the
\* issue channel carried an issue with an id, also after generateMockIssue has
\* produced its 5 issues.
C28_NoNullIssue == mock.last.ch = "issue" => mock.last.id # 0

\* The text on the first line of standard input, as typed.
TypedLine(s) ==
  LET ends == { i \in DOMAIN s : s[i] = Newline }
  IN IF ends = {} THEN s ELSE SubSeq(s, 1, (CHOOSE i \in ends : \A j \in ends : i <= j) - 1)

Yes == << "y", "e", "s" >>

\* C30 as stated: no delete command is executed unless the text typed at the prompt
\* is exactly yes; for any other input, or when read fails, the script has ended
\* (cancelled, or failed) without a deletion.
C30_DeletesOnlyOnExactYes ==
  LET exact == ReadScan(sh.stdin, 1, << >>).ok /\ TypedLine(sh.stdin) = Yes
  IN /\ sh.deletes > 0 => exact
     /\ (sh.pc \notin {"read", "test"} /\ ~exact)
          => (sh.pc \in {"cancelled", "failed"} /\ sh.deletes = 0)

\* C30, amended: no delete command is executed unless read succeeds and the value it
\* gives $confirm (the line without its backslash escapes and its leading and
\* trailing whitespace) is exactly yes; otherwise the script has ended (cancelled,
\* or failed) without a deletion.
C30_DeletesOnlyOnConfirmYes ==
  LET r == read(sh.stdin)
      confirmed == r.ok /\ r.value = "yes"
  IN /\ sh.deletes > 0 => confirmed
     /\ (sh.pc \notin {"read", "test"} /\ ~confirmed)
          => (sh.pc \in {"cancelled", "failed"} /\ sh.deletes = 0)

\* Deletions after an answer that is not the three letters yes.
C30_Witness == sh.deletes > 0 /\ TypedLine(sh.stdin) # Yes

====
